---- MODULE Spec2Model ----
(***************************************************************************)
(* osmium check-refs (src/src/command_check_refs.cpp): the bitsvec         *)
(* presence set, the RefCheckHandler callbacks and CommandCheckRefs::run.  *)
(*                                                                         *)
(* osmium::object_id_type is a signed 64-bit integer.  Node and way ids    *)
(* are modelled by integers.  Relation ids, which the handler narrows to   *)
(* uint32_t, are modelled by records [hi, lo] standing for                 *)
(* hi * 2^32 + lo with lo in the signed 32-bit range; a uint32_t value is  *)
(* modelled by the integer lo that has the same 32 bits.                   *)
(***************************************************************************)
EXTENDS Integers, Sequences, FiniteSets, TLC

VARIABLES
    pc,                            \* position of run() / of the reader
    m_show_ids, m_check_relations, \* options handed to the handler
    m_nodes, m_ways,               \* bitsvec
    m_relation_ids,                \* std::vector<uint32_t>
    m_member_relation_ids,         \* std::set<uint32_t>
    m_missing_relation_ids,        \* std::vector<uint32_t>
    m_node_count, m_way_count, m_relation_count,
    m_missing_nodes_in_ways,
    m_missing_nodes_in_relations,
    m_missing_ways_in_relations,
    m_relations_done,
    cout,                          \* lines written to std::cout: the kinds of a
                                   \* missing reference, the id of a missing relation
    cerr,                          \* numbers written to std::cerr by run()
    result,                        \* value returned by run(), "none" before
    ret, ncalls,                   \* last return value of / number of calls to
                                   \* missing_relations_in_relations()
    seenNodes, seenWays, seenRels, \* history: ids streamed per kind
    missingWayRefs,                \* history: node refs of ways (occurrences) whose
                                   \* id was not streamed as a node
    memNodes, memWays, memRels,    \* history: ids referenced as members, per kind
    nodeMemberRepeat,              \* history: a relation referenced a node that an
                                   \* earlier relation had referenced
    delivered,                     \* history: entities the reader handed to the
                                   \* handler, per kind
    bv, marks,                     \* a bitsvec on its own and the ids set in it
    twin                           \* a second handler, given the same entities
                                   \* with another option or in another order

handlerVars ==
    << m_nodes, m_ways, m_relation_ids, m_member_relation_ids,
       m_missing_relation_ids, m_node_count, m_way_count, m_relation_count,
       m_missing_nodes_in_ways, m_missing_nodes_in_relations,
       m_missing_ways_in_relations, m_relations_done >>

historyVars ==
    << seenNodes, seenWays, seenRels, missingWayRefs, memNodes, memWays, memRels,
       nodeMemberRepeat, delivered >>

runVars ==
    << pc, m_show_ids, m_check_relations, handlerVars, cout, cerr, result,
       ret, ncalls, historyVars, bv, marks >>

vars == << runVars, twin >>

----------------------------------------------------------------------------
(* Bounds of the model *)

MaxId == 1
MaxNeg == 1
MaxWayId == 1
MaxHi == 1
MaxRelLo == 1
MaxNodes == 2
MaxWays == 2
MaxRefs == 2
MaxRels == 2
MaxMembers == 2
MaxStream == 3
MaxPermMembers == 1
MaxChunks == 1
MaxBit == 1
MaxMarks == 3
MaxU32 == 2
MaxLedger == 3
MaxCalls == 3

Ids == (0 - MaxNeg)..MaxId

WayIds == 1..MaxWayId

RelIds ==
    { [hi |-> 0, lo |-> l] : l \in 0..MaxRelLo }
    \cup { [hi |-> h, lo |-> 0] : h \in 1..MaxHi }

Members ==
    { [type |-> "node", ref |-> r] : r \in Ids }
    \cup { [type |-> "way", ref |-> r] : r \in WayIds }
    \cup { [type |-> "relation", ref |-> r] : r \in RelIds }

SeqsUpTo(S, n) == UNION { [1..k -> S] : k \in 0..n }

Range(s) == { s[i] : i \in 1..Len(s) }

\* the node refs a way can hold, the members a relation can hold
RefSeqs == SeqsUpTo(Ids, MaxRefs)

MemberSeqs == SeqsUpTo(Members, MaxMembers)

----------------------------------------------------------------------------
(* bitsvec: std::vector<bool> as its size and the set of indexes holding true *)

Chunk == 1048576

\* variant: the id is used as it comes, sign included
Abs_signed(id) == id

Abs(id) == IF id < 0 THEN 0 - id ELSE id

\* variant: the new vector does not keep the old contents
vector_resize_clear(b, n) == [size |-> n, bits |-> {}]

vector_resize(b, n) == [size |-> n, bits |-> { i \in b.bits : i < n }]

bitsvec_new == [size |-> 0, bits |-> {}]

\* variant: the vector is resized on every call
bitsvec_set_realloc(b, id) ==
    LET pid == Abs(id)
        grown == vector_resize(b, pid + Chunk)
    IN  [grown EXCEPT !.bits = @ \cup {pid}]

\* variant: the new size is pid + 1 rounded up to a multiple of the chunk
bitsvec_set_rounded(b, id) ==
    LET pid == Abs(id)
        grown == IF b.size <= pid
                 THEN vector_resize(b, ((pid + Chunk) \div Chunk) * Chunk)
                 ELSE b
    IN  [grown EXCEPT !.bits = @ \cup {pid}]

bitsvec_set(b, id) ==
    LET pid == Abs(id)
        grown == IF b.size <= pid THEN vector_resize(b, pid + Chunk) ELSE b
    IN  [grown EXCEPT !.bits = @ \cup {pid}]

\* m_bits[i]; an index outside the vector has no defined value
vector_at(b, i) == IF i < b.size THEN i \in b.bits ELSE "undefined"

bitsvec_get(b, id) ==
    LET pid == Abs(id)
    IN  pid < b.size /\ vector_at(b, pid)

----------------------------------------------------------------------------
(* uint32_t values and the algorithms of <algorithm> used on them *)

Uint32(id) == id.lo

U32Less(a, b) == IF (a >= 0) = (b >= 0) THEN a < b ELSE a >= 0

RECURSIVE InsertSorted(_, _)
InsertSorted(s, x) ==
    IF s = << >> THEN << x >>
    ELSE IF U32Less(x, Head(s)) THEN << x >> \o s
    ELSE << Head(s) >> \o InsertSorted(Tail(s), x)

\* variant: the vector is left in the order of insertion
std_sort_none(s) == s

RECURSIVE std_sort(_)
std_sort(s) ==
    IF s = << >> THEN << >> ELSE InsertSorted(std_sort(Tail(s)), Head(s))

\* variant: the container hands out its elements greatest first
RECURSIVE set_iterate_descending(_)
set_iterate_descending(S) ==
    IF S = {} THEN << >>
    ELSE LET greatest == CHOOSE x \in S : \A y \in S \ {x} : U32Less(y, x)
         IN  << greatest >> \o set_iterate_descending(S \ {greatest})

RECURSIVE set_iterate(_)
set_iterate(S) ==
    IF S = {} THEN << >>
    ELSE LET least == CHOOSE x \in S : \A y \in S \ {x} : U32Less(x, y)
         IN  << least >> \o set_iterate(S \ {least})

\* variant: no branch of its own for an element of b below the head of a
RECURSIVE set_difference_nobranch(_, _)
set_difference_nobranch(a, b) ==
    IF a = << >> THEN << >>
    ELSE IF b = << >> THEN a
    ELSE IF U32Less(Head(a), Head(b))
         THEN << Head(a) >> \o set_difference_nobranch(Tail(a), b)
    ELSE set_difference_nobranch(Tail(a), Tail(b))

RECURSIVE set_difference(_, _)
set_difference(a, b) ==
    IF a = << >> THEN << >>
    ELSE IF b = << >> THEN a
    ELSE IF U32Less(Head(a), Head(b))
         THEN << Head(a) >> \o set_difference(Tail(a), b)
    ELSE IF U32Less(Head(b), Head(a))
         THEN set_difference(a, Tail(b))
    ELSE set_difference(Tail(a), Tail(b))

----------------------------------------------------------------------------
(* RefCheckHandler *)

\* variant: no m_relations_done guard, every call computes the difference
missing_relations_recomputed(ids, members, missing, done) ==
    LET sorted == std_sort(ids)
    IN  [ids     |-> sorted,
         missing |-> missing \o set_difference(set_iterate(members), sorted),
         done    |-> TRUE]

\* variant: the call computes the list and forgets to record that it did
missing_relations_unmarked(ids, members, missing, done) ==
    IF ~done
    THEN LET sorted == std_sort(ids)
         IN  [ids     |-> sorted,
              missing |-> missing \o set_difference(set_iterate(members), sorted),
              done    |-> done]
    ELSE [ids |-> ids, missing |-> missing, done |-> done]

\* missing_relations_in_relations(): the ledger after the call
missing_relations_in_relations(ids, members, missing, done) ==
    IF ~done
    THEN LET sorted == std_sort(ids)
         IN  [ids     |-> sorted,
              missing |-> missing \o set_difference(set_iterate(members), sorted),
              done    |-> TRUE]
    ELSE [ids |-> ids, missing |-> missing, done |-> done]

\* way(): if (m_check_relations) m_ways.set(way.id())
way_mark(ways, check, id) == IF check THEN bitsvec_set(ways, id) ELSE ways

\* variant: a way counts once however many of its refs are missing
way_nodes_per_way(nodes, show, id, refs) ==
    LET miss == \E i \in 1..Len(refs) : ~bitsvec_get(nodes, refs[i])
    IN  [nodes   |-> nodes,
         missing |-> IF miss THEN 1 ELSE 0,
         out     |-> IF miss /\ show THEN << << "n", "w" >> >> ELSE << >>]

\* variant: a missing ref is marked present, as relation() does for members
RECURSIVE way_nodes_marking(_, _, _, _)
way_nodes_marking(nodes, show, id, refs) ==
    IF refs = << >> THEN [nodes |-> nodes, missing |-> 0, out |-> << >>]
    ELSE LET miss == ~bitsvec_get(nodes, Head(refs))
             rest == way_nodes_marking(
                         IF miss THEN bitsvec_set(nodes, Head(refs)) ELSE nodes,
                         show, id, Tail(refs))
         IN  [nodes   |-> rest.nodes,
              missing |-> (IF miss THEN 1 ELSE 0) + rest.missing,
              out     |-> (IF miss /\ show
                           THEN << << "n", "w" >> >>
                           ELSE << >>) \o rest.out]

\* the loop over way.nodes(): the point presence set, the number of misses
\* and the lines written, after the loop
RECURSIVE way_nodes(_, _, _, _)
way_nodes(nodes, show, id, refs) ==
    IF refs = << >> THEN [nodes |-> nodes, missing |-> 0, out |-> << >>]
    ELSE LET miss == ~bitsvec_get(nodes, Head(refs))
             rest == way_nodes(nodes, show, id, Tail(refs))
         IN  [nodes   |-> rest.nodes,
              missing |-> (IF miss THEN 1 ELSE 0) + rest.missing,
              out     |-> (IF miss /\ show
                           THEN << << "n", "w" >> >>
                           ELSE << >>) \o rest.out]

\* variant: a way with a missing node ref is not counted
handler_way_uncounted(count, nodes, ways, check, show, id, refs) ==
    LET r == way_nodes(nodes, show, id, refs)
    IN  [count   |-> IF r.missing > 0 THEN count ELSE count + 1,
         nodes   |-> r.nodes,
         ways    |-> way_mark(ways, check, id),
         missing |-> r.missing,
         out     |-> r.out]

\* variant: the loop over the node refs is inside if (m_check_relations)
handler_way_guarded(count, nodes, ways, check, show, id, refs) ==
    LET r == IF check
             THEN way_nodes(nodes, show, id, refs)
             ELSE [nodes |-> nodes, missing |-> 0, out |-> << >>]
    IN  [count   |-> count + 1,
         nodes   |-> r.nodes,
         ways    |-> way_mark(ways, check, id),
         missing |-> r.missing,
         out     |-> r.out]

\* way(): the way is counted, marked if relations are checked, and its node
\* refs are looked up, each step whatever the others find
handler_way(count, nodes, ways, check, show, id, refs) ==
    LET r == way_nodes(nodes, show, id, refs)
    IN  [count   |-> count + 1,
         nodes   |-> r.nodes,
         ways    |-> way_mark(ways, check, id),
         missing |-> r.missing,
         out     |-> r.out]

\* variant: a missing member is counted and not marked present
relation_member_nomark(st, show, id, member) ==
    CASE member.type = "node" ->
           IF ~bitsvec_get(st.nodes, member.ref)
           THEN [st EXCEPT !.mn = @ + 1,
                           !.out = IF show
                                   THEN Append(@, << "n", "r" >>)
                                   ELSE @]
           ELSE st
      [] member.type = "way" ->
           IF ~bitsvec_get(st.ways, member.ref)
           THEN [st EXCEPT !.mw = @ + 1,
                           !.out = IF show
                                   THEN Append(@, << "w", "r" >>)
                                   ELSE @]
           ELSE st
      [] member.type = "relation" ->
           [st EXCEPT !.members = @ \cup {Uint32(id)}]
      [] OTHER -> st

\* one member of relation.members(): the switch on member.type()
relation_member(st, show, id, member) ==
    CASE member.type = "node" ->
           IF ~bitsvec_get(st.nodes, member.ref)
           THEN [st EXCEPT !.mn = @ + 1,
                           !.nodes = bitsvec_set(@, member.ref),
                           !.out = IF show
                                   THEN Append(@, << "n", "r" >>)
                                   ELSE @]
           ELSE st
      [] member.type = "way" ->
           IF ~bitsvec_get(st.ways, member.ref)
           THEN [st EXCEPT !.mw = @ + 1,
                           !.ways = bitsvec_set(@, member.ref),
                           !.out = IF show
                                   THEN Append(@, << "w", "r" >>)
                                   ELSE @]
           ELSE st
      [] member.type = "relation" ->
           [st EXCEPT !.members = @ \cup {Uint32(id)}]
      [] OTHER -> st

\* the loop over relation.members()
RECURSIVE relation_members(_, _, _, _)
relation_members(st, show, id, members) ==
    IF members = << >> THEN st
    ELSE relation_members(relation_member(st, show, id, Head(members)),
                          show, id, Tail(members))

\* variant: the members are checked whatever m_check_relations is
relation_unguarded(st, check, show, id, members) ==
    relation_members([st EXCEPT !.ids = Append(@, Uint32(id))],
                     show, id, members)

\* relation(): the part guarded by m_check_relations
relation_checked(st, check, show, id, members) ==
    IF check
    THEN relation_members([st EXCEPT !.ids = Append(@, Uint32(id))],
                          show, id, members)
    ELSE st

\* variant: the missing ways in relations are left out
any_errors_three(mnw, mnr, mwr, ids, members, missing, done) ==
    IF mnw > 0 \/ mnr > 0
    THEN [value |-> TRUE, called |-> FALSE,
          ledger |-> [ids |-> ids, missing |-> missing, done |-> done]]
    ELSE LET l == missing_relations_in_relations(ids, members, missing, done)
         IN  [value |-> Len(l.missing) > 0, called |-> TRUE, ledger |-> l]

\* variant: all four operands are evaluated before they are combined
any_errors_eager(mnw, mnr, mwr, ids, members, missing, done) ==
    LET l == missing_relations_in_relations(ids, members, missing, done)
    IN  [value |-> mnw > 0 \/ mnr > 0 \/ mwr > 0 \/ Len(l.missing) > 0,
         called |-> TRUE, ledger |-> l]

\* any_errors(): || evaluates its right operand only when the left is false
any_errors(mnw, mnr, mwr, ids, members, missing, done) ==
    IF mnw > 0 \/ mnr > 0 \/ mwr > 0
    THEN [value |-> TRUE, called |-> FALSE,
          ledger |-> [ids |-> ids, missing |-> missing, done |-> done]]
    ELSE LET l == missing_relations_in_relations(ids, members, missing, done)
         IN  [value |-> Len(l.missing) > 0, called |-> TRUE, ledger |-> l]

----------------------------------------------------------------------------
(* History kept for stating the properties *)

\* ids are identified up to their sign, as the presence set keys them
Key(id) == IF id < 0 THEN 0 - id ELSE id

Keys(S) == { Key(i) : i \in S }

Streamed(seen, id) == Key(id) \in Keys(seen)

RefsOf(members, t) ==
    LET idx == { i \in 1..Len(members) : members[i].type = t }
    IN  { members[i].ref : i \in idx }

----------------------------------------------------------------------------
(* CommandCheckRefs::run() on an ordered stream *)

Streaming == pc \in {"nodes", "ways", "relations"}

\* the stream still holds an entity
More == m_node_count + m_way_count + m_relation_count < MaxStream

\* the handler as constructed, nothing streamed
Fresh ==
    /\ m_nodes = bitsvec_new
    /\ m_ways = bitsvec_new
    /\ m_missing_relation_ids = << >>
    /\ m_node_count = 0
    /\ m_way_count = 0
    /\ m_missing_nodes_in_ways = 0
    /\ m_missing_nodes_in_relations = 0
    /\ m_missing_ways_in_relations = 0
    /\ m_relations_done = FALSE
    /\ cout = << >>
    /\ cerr = << >>
    /\ result = "none"
    /\ ret = 0
    /\ ncalls = 0
    /\ seenNodes = {}
    /\ seenWays = {}
    /\ seenRels = {}
    /\ missingWayRefs = 0
    /\ memNodes = {}
    /\ memWays = {}
    /\ memRels = {}
    /\ nodeMemberRepeat = FALSE
    /\ delivered = [nodes |-> 0, ways |-> 0, relations |-> 0]
    /\ bv = bitsvec_new
    /\ marks = << >>

\* RefCheckHandler(vout, show_ids, check_relations): a handler as a record
handler_new(check) ==
    [check |-> check, nodes |-> bitsvec_new, ways |-> bitsvec_new,
     ids |-> << >>, members |-> {}, missing |-> << >>, done |-> FALSE,
     node_count |-> 0, way_count |-> 0, relation_count |-> 0,
     mnw |-> 0, mn |-> 0, mw |-> 0,
     pending |-> << >>, reordered |-> FALSE]

Init ==
    /\ pc = "nodes"
    /\ m_show_ids \in BOOLEAN
    /\ m_check_relations \in BOOLEAN
    /\ m_relation_ids = << >>
    /\ m_member_relation_ids = {}
    /\ m_relation_count = 0
    /\ Fresh
    /\ twin = handler_new(FALSE)

node(id) ==
    /\ pc = "nodes"
    /\ More
    /\ m_node_count < MaxNodes
    /\ m_node_count' = m_node_count + 1
    /\ m_nodes' = bitsvec_set(m_nodes, id)
    /\ seenNodes' = seenNodes \cup {id}
    /\ delivered' = [delivered EXCEPT !.nodes = @ + 1]
    /\ UNCHANGED << pc, m_show_ids, m_check_relations, m_ways, m_relation_ids,
                    m_member_relation_ids, m_missing_relation_ids, m_way_count,
                    m_relation_count, m_missing_nodes_in_ways,
                    m_missing_nodes_in_relations, m_missing_ways_in_relations,
                    m_relations_done, cout, cerr, result, ret, ncalls,
                    seenWays, seenRels, missingWayRefs, memNodes, memWays, memRels,
                    nodeMemberRepeat, bv, marks >>

way(id, refs) ==
    /\ pc \in {"nodes", "ways"}
    /\ More
    /\ m_way_count < MaxWays
    /\ pc' = "ways"
    /\ LET r == handler_way(m_way_count, m_nodes, m_ways, m_check_relations,
                             m_show_ids, id, refs)
       IN  /\ m_way_count' = r.count
           /\ m_ways' = r.ways
           /\ m_nodes' = r.nodes
           /\ m_missing_nodes_in_ways' = m_missing_nodes_in_ways + r.missing
           /\ cout' = cout \o r.out
    /\ seenWays' = seenWays \cup {id}
    /\ delivered' = [delivered EXCEPT !.ways = @ + 1]
    /\ missingWayRefs' =
           missingWayRefs
           + Cardinality({ i \in 1..Len(refs) : ~Streamed(seenNodes, refs[i]) })
    /\ UNCHANGED << m_show_ids, m_check_relations, m_relation_ids,
                    m_member_relation_ids, m_missing_relation_ids, m_node_count,
                    m_relation_count, m_missing_nodes_in_relations,
                    m_missing_ways_in_relations, m_relations_done, cerr, result,
                    ret, ncalls, seenNodes, seenRels, memNodes, memWays, memRels,
                    nodeMemberRepeat, bv, marks >>

relation(id, members) ==
    /\ Streaming
    /\ More
    /\ m_relation_count < MaxRels
    /\ pc' = "relations"
    /\ m_relation_count' = m_relation_count + 1
    /\ LET st == relation_checked(
                     [nodes |-> m_nodes, ways |-> m_ways,
                      mn |-> m_missing_nodes_in_relations,
                      mw |-> m_missing_ways_in_relations,
                      ids |-> m_relation_ids,
                      members |-> m_member_relation_ids, out |-> cout],
                     m_check_relations, m_show_ids, id, members)
       IN  /\ m_relation_ids' = st.ids
           /\ m_nodes' = st.nodes
           /\ m_ways' = st.ways
           /\ m_missing_nodes_in_relations' = st.mn
           /\ m_missing_ways_in_relations' = st.mw
           /\ m_member_relation_ids' = st.members
           /\ cout' = st.out
    /\ seenRels' = seenRels \cup {id}
    /\ delivered' = [delivered EXCEPT !.relations = @ + 1]
    /\ memNodes' = memNodes \cup RefsOf(members, "node")
    /\ memWays' = memWays \cup RefsOf(members, "way")
    /\ memRels' = memRels \cup RefsOf(members, "relation")
    /\ nodeMemberRepeat' =
           (nodeMemberRepeat
            \/ Keys(RefsOf(members, "node")) \cap Keys(memNodes) # {})
    /\ UNCHANGED << m_show_ids, m_check_relations, m_missing_relation_ids,
                    m_node_count, m_way_count, m_missing_nodes_in_ways,
                    m_relations_done, cerr, result, ret, ncalls, seenNodes,
                    seenWays, missingWayRefs, bv, marks >>

\* osmium::apply() returns at the end of the stream; run() writes the counts
\* and the numbers of missing references
Report ==
    /\ Streaming
    /\ pc' = "show"
    /\ IF m_check_relations
       THEN LET l == missing_relations_in_relations(
                         m_relation_ids, m_member_relation_ids,
                         m_missing_relation_ids, m_relations_done)
            IN  /\ m_relation_ids' = l.ids
                /\ m_missing_relation_ids' = l.missing
                /\ m_relations_done' = l.done
                /\ ret' = Len(l.missing)
                /\ ncalls' = ncalls + 1
                /\ cerr' = << m_node_count, m_way_count, m_relation_count,
                              m_missing_nodes_in_ways,
                              m_missing_nodes_in_relations,
                              m_missing_ways_in_relations,
                              Len(l.missing) >>
       ELSE /\ cerr' = << m_node_count, m_way_count, m_relation_count,
                          m_missing_nodes_in_ways >>
            /\ UNCHANGED << m_relation_ids, m_missing_relation_ids,
                            m_relations_done, ret, ncalls >>
    /\ UNCHANGED << m_show_ids, m_check_relations, m_nodes, m_ways,
                    m_member_relation_ids, m_node_count, m_way_count,
                    m_relation_count, m_missing_nodes_in_ways,
                    m_missing_nodes_in_relations, m_missing_ways_in_relations,
                    cout, result, historyVars, bv, marks >>

\* show_missing_relation_ids(): the lines it writes
show_missing_relation_ids(missing) ==
    [i \in 1..Len(missing) |-> << "r", missing[i], "r" >>]

\* run(): if (m_show_ids) handler.show_missing_relation_ids()
ShowIds ==
    /\ pc = "show"
    /\ pc' = "any_errors"
    /\ cout' = IF m_show_ids
               THEN cout \o show_missing_relation_ids(m_missing_relation_ids)
               ELSE cout
    /\ UNCHANGED << m_show_ids, m_check_relations, handlerVars, cerr, result,
                    ret, ncalls, historyVars, bv, marks >>

\* run(): return !handler.any_errors()
Return ==
    /\ pc = "any_errors"
    /\ pc' = "done"
    /\ LET e == any_errors(m_missing_nodes_in_ways, m_missing_nodes_in_relations,
                           m_missing_ways_in_relations, m_relation_ids,
                           m_member_relation_ids, m_missing_relation_ids,
                           m_relations_done)
       IN  /\ result' = ~e.value
           /\ m_relation_ids' = e.ledger.ids
           /\ m_missing_relation_ids' = e.ledger.missing
           /\ m_relations_done' = e.ledger.done
           /\ ret' = IF e.called THEN Len(e.ledger.missing) ELSE ret
           /\ ncalls' = IF e.called THEN ncalls + 1 ELSE ncalls
    /\ UNCHANGED << m_show_ids, m_check_relations, m_nodes, m_ways,
                    m_member_relation_ids, m_node_count, m_way_count,
                    m_relation_count, m_missing_nodes_in_ways,
                    m_missing_nodes_in_relations, m_missing_ways_in_relations,
                    cout, cerr, historyVars, bv, marks >>

Next ==
    \/ \E id \in Ids : node(id) /\ UNCHANGED twin
    \/ \E id \in WayIds, refs \in RefSeqs : way(id, refs) /\ UNCHANGED twin
    \/ \E id \in RelIds, members \in MemberSeqs :
           relation(id, members) /\ UNCHANGED twin
    \/ Report /\ UNCHANGED twin
    \/ ShowIds /\ UNCHANGED twin
    \/ Return /\ UNCHANGED twin

Spec == Init /\ [][Next]_vars

----------------------------------------------------------------------------
(* A bitsvec on its own: any sequence of set() calls *)

BitIds ==
    LET pids == { c * Chunk + k : c \in 0..MaxChunks, k \in 0..MaxBit }
    IN  pids \cup { 0 - i : i \in pids }

InitBits ==
    /\ pc = "bits"
    /\ m_show_ids = FALSE
    /\ m_check_relations = FALSE
    /\ m_relation_ids = << >>
    /\ m_member_relation_ids = {}
    /\ m_relation_count = 0
    /\ Fresh
    /\ twin = handler_new(FALSE)

BitsSet(id) ==
    /\ pc = "bits"
    /\ Len(marks) < MaxMarks
    /\ bv' = bitsvec_set(bv, id)
    /\ marks' = Append(marks, id)
    /\ UNCHANGED << pc, m_show_ids, m_check_relations, handlerVars, cout, cerr,
                    result, ret, ncalls, historyVars >>

NextBits == \E id \in BitIds : BitsSet(id) /\ UNCHANGED twin

SpecBits == InitBits /\ [][NextBits]_vars

----------------------------------------------------------------------------
(* The reconciliation on its own: any ledger, queried repeatedly *)

\* uint32_t values; -1 stands for 2^32 - 1
U32Vals == (0 - 1)..MaxU32

InitRecon ==
    /\ pc = "recon"
    /\ m_show_ids = FALSE
    /\ m_check_relations = TRUE
    /\ m_relation_ids \in SeqsUpTo(U32Vals, MaxLedger)
    /\ m_member_relation_ids \in SUBSET U32Vals
    /\ m_relation_count = Len(m_relation_ids)
    /\ Fresh
    /\ twin = handler_new(FALSE)

Query ==
    /\ pc = "recon"
    /\ ncalls < MaxCalls
    /\ LET l == missing_relations_in_relations(
                    m_relation_ids, m_member_relation_ids,
                    m_missing_relation_ids, m_relations_done)
       IN  /\ m_relation_ids' = l.ids
           /\ m_missing_relation_ids' = l.missing
           /\ m_relations_done' = l.done
           /\ ret' = Len(l.missing)
           /\ ncalls' = ncalls + 1
    /\ UNCHANGED << pc, m_show_ids, m_check_relations, m_nodes, m_ways,
                    m_member_relation_ids, m_node_count, m_way_count,
                    m_relation_count, m_missing_nodes_in_ways,
                    m_missing_nodes_in_relations, m_missing_ways_in_relations,
                    cout, cerr, result, historyVars, bv, marks >>

\* show_missing_relation_ids(), called once
ShowMissing ==
    /\ pc = "recon"
    /\ cout = << >>
    /\ cout' = show_missing_relation_ids(m_missing_relation_ids)
    /\ UNCHANGED << pc, m_show_ids, m_check_relations, handlerVars, cerr,
                    result, ret, ncalls, historyVars, bv, marks >>

NextRecon ==
    \/ Query /\ UNCHANGED twin
    \/ ShowMissing /\ UNCHANGED twin

SpecRecon == InitRecon /\ [][NextRecon]_vars

----------------------------------------------------------------------------
(* Two handlers on one stream: the second one is the record twin *)

\* node() on a handler record
handler_node(h, id) ==
    [h EXCEPT !.node_count = @ + 1, !.nodes = bitsvec_set(@, id)]

\* way() on a handler record
handler_way_record(h, show, id, refs) ==
    LET r == handler_way(h.way_count, h.nodes, h.ways, h.check, show, id, refs)
    IN  [h EXCEPT !.way_count = r.count, !.nodes = r.nodes, !.ways = r.ways,
                  !.mnw = @ + r.missing]

\* relation() on a handler record
handler_relation(h, show, id, members) ==
    LET st == relation_checked(
                  [nodes |-> h.nodes, ways |-> h.ways, mn |-> h.mn, mw |-> h.mw,
                   ids |-> h.ids, members |-> h.members, out |-> << >>],
                  h.check, show, id, members)
    IN  [h EXCEPT !.relation_count = @ + 1, !.nodes = st.nodes,
                  !.ways = st.ways, !.mn = st.mn, !.mw = st.mw,
                  !.ids = st.ids, !.members = st.members]

\* run(): the call of missing_relations_in_relations() under
\* if (m_check_relations), on a handler record
handler_report(h) ==
    IF h.check
    THEN LET l == missing_relations_in_relations(h.ids, h.members, h.missing,
                                                 h.done)
         IN  [h EXCEPT !.ids = l.ids, !.missing = l.missing, !.done = l.done]
    ELSE h

node_both(id) ==
    /\ node(id)
    /\ twin' = handler_node(twin, id)

way_both(id, refs) ==
    /\ way(id, refs)
    /\ twin' = handler_way_record(twin, m_show_ids, id, refs)

relation_both(id, members) ==
    /\ relation(id, members)
    /\ twin' = handler_relation(twin, m_show_ids, id, members)

\* the end of the stream, for both handlers
Report_both ==
    /\ Report
    /\ twin.pending = << >>
    /\ twin' = handler_report(twin)

(* The same stream with check_relations enabled in one handler and disabled
   in the other *)

InitOpt ==
    /\ pc = "nodes"
    /\ m_show_ids \in BOOLEAN
    /\ m_check_relations \in BOOLEAN
    /\ m_relation_ids = << >>
    /\ m_member_relation_ids = {}
    /\ m_relation_count = 0
    /\ Fresh
    /\ twin = handler_new(~m_check_relations)

NextOpt ==
    \/ \E id \in Ids : node_both(id)
    \/ \E id \in WayIds, refs \in RefSeqs : way_both(id, refs)
    \/ \E id \in RelIds, members \in MemberSeqs : relation_both(id, members)
    \/ Report_both

SpecOpt == InitOpt /\ [][NextOpt]_vars

(* The same nodes and ways and the same relations, the relations in any
   order for the second handler *)

\* the members a relation holds in these streams
PermMemberSeqs == SeqsUpTo(Members, MaxPermMembers)

InitPerm ==
    /\ pc = "nodes"
    /\ m_show_ids \in BOOLEAN
    /\ m_check_relations \in BOOLEAN
    /\ m_relation_ids = << >>
    /\ m_member_relation_ids = {}
    /\ m_relation_count = 0
    /\ Fresh
    /\ twin = handler_new(m_check_relations)

\* the first handler takes a relation; the second one will
relation_first(id, members) ==
    /\ relation(id, members)
    /\ twin' = [twin EXCEPT
                   !.pending = Append(@, [id |-> id, members |-> members])]

\* the second handler takes one of the relations it has not had yet
relation_second(i) ==
    /\ pc = "relations"
    /\ LET p    == twin.pending[i]
           rest == [k \in 1..(Len(twin.pending) - 1) |->
                       IF k < i THEN twin.pending[k] ELSE twin.pending[k + 1]]
       IN  twin' = [handler_relation(twin, m_show_ids, p.id, p.members) EXCEPT
                       !.pending = rest,
                       !.reordered = @ \/ (i > 1 /\ twin.pending[1] # p)]
    /\ UNCHANGED runVars

NextPerm ==
    \/ \E id \in Ids : node_both(id)
    \/ \E id \in WayIds, refs \in RefSeqs : way_both(id, refs)
    \/ \E id \in RelIds, members \in PermMemberSeqs :
           relation_first(id, members)
    \/ \E i \in 1..Len(twin.pending) : relation_second(i)
    \/ Report_both

SpecPerm == InitPerm /\ [][NextPerm]_vars

----------------------------------------------------------------------------
(* Properties *)

U32Set(S) == { Uint32(r) : r \in S }

NoRepeat(s) == \A i, j \in 1..Len(s) : i # j => s[i] # s[j]

RECURSIVE Collapse(_)
Collapse(s) ==
    IF s = << >> THEN << >>
    ELSE LET front == Collapse(SubSeq(s, 1, Len(s) - 1))
             last  == s[Len(s)]
         IN  IF last \in Range(front) THEN front ELSE Append(front, last)

\* what missing_relations_in_relations() returns when called in this state
RelationsMissing ==
    Len(missing_relations_in_relations(
            m_relation_ids, m_member_relation_ids, m_missing_relation_ids,
            m_relations_done).missing)

\* C1: with relation checking enabled, after reconciliation the missing
\* relation ids are exactly the ids referenced as a member of kind relation
\* minus the ids streamed as relations, and the returned count is their number.
C1_ReconciliationExact ==
    (m_check_relations /\ m_relations_done) =>
        /\ Range(m_missing_relation_ids) = U32Set(memRels) \ U32Set(seenRels)
        /\ ret = Cardinality(U32Set(memRels) \ U32Set(seenRels))

\* C2: missing_nodes_in_ways is the number of node-ref occurrences, over all
\* ways, whose id was not streamed as a node (ids identified up to sign, as
\* the presence set keys them); every such occurrence counts.
C2_MissingNodesInWays == m_missing_nodes_in_ways = missingWayRefs

C2_Witness ==
    /\ pc = "done"
    /\ m_node_count = 1
    /\ m_way_count = 2
    /\ m_missing_nodes_in_ways = 3
    /\ result = FALSE

\* C3: with relation checking enabled, missing_nodes_in_relations is the
\* number of distinct node-member ids never streamed as nodes, and
\* missing_ways_in_relations the number of distinct way-member ids never
\* streamed as ways (ids identified up to sign).
C3_MissingMembersOnce ==
    m_check_relations =>
        /\ m_missing_nodes_in_relations
               = Cardinality(Keys(memNodes) \ Keys(seenNodes))
        /\ m_missing_ways_in_relations
               = Cardinality(Keys(memWays) \ Keys(seenWays))

C3_Witness ==
    /\ m_check_relations
    /\ m_relation_count = 2
    /\ nodeMemberRepeat
    /\ Keys(memNodes) \cap Keys(seenNodes) = {}
    /\ m_missing_nodes_in_relations = 1

\* C4: run() returns true exactly when any_errors() is false, and
\* any_errors() is true exactly when one of the four missing counters is
\* nonzero.
C4_AnyErrorsIffCounter ==
    pc = "done" =>
        result = ~(\/ m_missing_nodes_in_ways > 0
                   \/ m_missing_nodes_in_relations > 0
                   \/ m_missing_ways_in_relations > 0
                   \/ RelationsMissing > 0)

C4_Witness ==
    /\ pc = "done"
    /\ result = FALSE
    /\ m_missing_nodes_in_ways = 0
    /\ m_missing_nodes_in_relations = 0
    /\ m_missing_ways_in_relations > 0

\* C5 as stated: once any_errors() has returned, the reconciliation has run,
\* whatever the other three counters are.
C5_FinalizedAfterAnyErrors == pc = "done" => m_relations_done

\* C5 as amended: any_errors() runs the reconciliation, if it has not run,
\* exactly when the other three counters are all zero; when one of them is
\* nonzero it returns true and leaves the ledger as it is.
C5_FinalizedWhenCountersZero ==
    [][(pc = "any_errors" /\ pc' = "done") =>
         /\ m_relations_done'
                = (m_relations_done
                   \/ (/\ m_missing_nodes_in_ways = 0
                       /\ m_missing_nodes_in_relations = 0
                       /\ m_missing_ways_in_relations = 0))
         /\ (~m_relations_done' =>
                /\ result' = FALSE
                /\ m_missing_relation_ids' = m_missing_relation_ids
                /\ m_relation_ids' = m_relation_ids)]_vars

C5_Witness ==
    /\ pc = "done"
    /\ ~m_check_relations
    /\ m_relations_done
    /\ ncalls = 1
    /\ m_relation_count > 0

\* C6: a second or later call of missing_relations_in_relations() returns
\* the count of the first, and leaves the ledger and the missing ids as they
\* were, without repeated entries.
C6_QueryIdempotent ==
    [][(ncalls >= 1 /\ ncalls' = ncalls + 1) =>
         /\ ret' = ret
         /\ m_missing_relation_ids' = m_missing_relation_ids
         /\ m_relation_ids' = m_relation_ids
         /\ NoRepeat(m_missing_relation_ids')]_vars

C6_Witness ==
    /\ pc = "recon"
    /\ ncalls >= 2
    /\ Len(m_missing_relation_ids) >= 2
    /\ ret = Len(m_missing_relation_ids)

\* C7: after any sequence of set() calls with non-negative ids, get() is true
\* for every id set and false for every other id, also for an id at or beyond
\* the size of the vector.
C7_GetIffSet ==
    (\A i \in 1..Len(marks) : marks[i] >= 0) =>
        \A id \in { i \in BitIds : i >= 0 } \cup { bv.size, bv.size + 1 } :
            bitsvec_get(bv, id) = (id \in Range(marks))

C7_Witness ==
    /\ pc = "bits"
    /\ Len(marks) = 3
    /\ marks[1] = 1
    /\ marks[2] = Chunk + 1
    /\ marks[3] = 0
    /\ bv.size = 2 * Chunk + 1

\* C8: with relation checking disabled, a relation changes nothing but the
\* relation count: the way presence set and the ledger stay empty, the node
\* presence set holds the streamed nodes only, and the three relation
\* counters are 0.
C8_DisabledNoTracking ==
    /\ [](~m_check_relations =>
            /\ m_ways = bitsvec_new
            /\ m_relation_ids = << >>
            /\ m_member_relation_ids = {}
            /\ m_missing_relation_ids = << >>
            /\ m_nodes.bits = Keys(seenNodes)
            /\ m_missing_nodes_in_relations = 0
            /\ m_missing_ways_in_relations = 0
            /\ RelationsMissing = 0)
    /\ [][(~m_check_relations /\ m_relation_count' # m_relation_count) =>
            UNCHANGED << m_nodes, m_ways, m_relation_ids,
                         m_member_relation_ids, m_missing_relation_ids,
                         m_node_count, m_way_count, m_missing_nodes_in_ways,
                         m_missing_nodes_in_relations,
                         m_missing_ways_in_relations, m_relations_done,
                         cout >>]_vars

C8_Witness ==
    /\ ~m_check_relations
    /\ pc = "done"
    /\ m_relation_count = 2
    /\ m_node_count = 1
    /\ Keys(memNodes) \ Keys(seenNodes) # {}
    /\ memWays # {}
    /\ memRels \ seenRels # {}

\* C9: way() leaves the node presence set as it was, also when the way
\* references ids that are missing.
C9_WayKeepsNodes ==
    [][m_way_count' # m_way_count => m_nodes' = m_nodes]_vars

C9_Witness ==
    /\ m_way_count = 2
    /\ m_missing_nodes_in_ways = 2
    /\ m_relation_count = 1
    /\ m_missing_nodes_in_relations = 1
    /\ seenNodes = {}

\* C10: relation ids pushed more than once do not change the reconciliation:
\* the missing ids are those computed from the ledger with the repeats
\* collapsed, the members that are no element of the ledger.
C10_RepeatsCollapse ==
    m_relations_done =>
        /\ m_missing_relation_ids
               = missing_relations_in_relations(
                     Collapse(m_relation_ids), m_member_relation_ids,
                     << >>, FALSE).missing
        /\ Range(m_missing_relation_ids)
               = m_member_relation_ids \ Range(m_relation_ids)

C10_Witness ==
    /\ m_relations_done
    /\ ~NoRepeat(m_relation_ids)
    /\ m_missing_relation_ids # << >>
    /\ \E i \in 1..Len(m_relation_ids) :
           /\ m_relation_ids[i] \in m_member_relation_ids
           /\ \E j \in 1..Len(m_relation_ids) :
                  j # i /\ m_relation_ids[j] = m_relation_ids[i]

StrictlyAscending(s) == \A i \in 1..(Len(s) - 1) : U32Less(s[i], s[i + 1])

\* C11: after the reconciliation the missing relation ids are in strictly
\* ascending order, without repeats, whatever the order of the ledger, and
\* show_missing_relation_ids() writes them in that order.
C11_MissingAscending ==
    m_relations_done =>
        /\ StrictlyAscending(m_missing_relation_ids)
        /\ NoRepeat(m_missing_relation_ids)
        /\ cout # << >> =>
               /\ Len(cout) = Len(m_missing_relation_ids)
               /\ \A i \in 1..Len(cout) : cout[i][2] = m_missing_relation_ids[i]

C11_Witness ==
    /\ pc = "recon"
    /\ m_relations_done
    /\ Len(m_missing_relation_ids) = 3
    /\ m_missing_relation_ids[3] = 0 - 1
    /\ Len(cout) = 3
    /\ m_relation_ids # << >>

\* C12: the presence set takes every id as its absolute value: set(id) and
\* set(-id) lead to the same state, get(id) and get(-id) give the same answer,
\* and an id is present exactly when it or its negation was set, so a set
\* with -k makes k present.
C12_SignIrrelevant ==
    \A id \in BitIds :
        /\ bitsvec_set(bv, id) = bitsvec_set(bv, 0 - id)
        /\ bitsvec_get(bv, id) = bitsvec_get(bv, 0 - id)
        /\ bitsvec_get(bv, id) = (\E i \in 1..Len(marks) : Abs(marks[i]) = Abs(id))

C12_Witness ==
    /\ pc = "bits"
    /\ marks # << >>
    /\ marks[1] = 0 - 1
    /\ 1 \notin Range(marks)
    /\ bitsvec_get(bv, 1) = TRUE
    /\ bitsvec_get(bv, Chunk + 1) = FALSE

LastMark == marks'[Len(marks')]

\* C13: the size of the vector is strictly greater than the absolute value of
\* every id set so far, a set never makes it smaller, and a set of an id
\* below the size leaves the size as it is.
C13_CapacityInvariant ==
    /\ [](\A i \in 1..Len(marks) : Abs(marks[i]) < bv.size)
    /\ [][ /\ bv'.size >= bv.size
           /\ (Len(marks') = Len(marks) + 1 /\ Abs(LastMark) < bv.size)
                  => bv'.size = bv.size ]_vars

C13_Witness ==
    /\ pc = "bits"
    /\ Len(marks) = 3
    /\ marks[1] = 0 - (Chunk + 1)
    /\ marks[2] = 1
    /\ marks[3] = Chunk
    /\ bv.size = 2 * Chunk + 1

\* C19 (as stated): the capacity is always a multiple of the chunk size and
\* greater than every index set.
C19_CapacityMultipleOfChunk ==
    /\ bv.size % Chunk = 0
    /\ \A i \in 1..Len(marks) : Abs(marks[i]) + 1 <= bv.size

\* C19 (amended): a set whose index is at or beyond the capacity makes the
\* capacity that index plus one chunk, which is at least index + 1 and need
\* not be a multiple of the chunk; no other set changes the capacity.
C19_GrowthByChunk ==
    [][ Len(marks') = Len(marks) + 1 =>
            bv'.size = IF bv.size <= Abs(LastMark)
                       THEN Abs(LastMark) + Chunk
                       ELSE bv.size ]_vars

C19_Witness ==
    /\ pc = "bits"
    /\ Len(marks) = 2
    /\ marks[1] = 1
    /\ marks[2] = Chunk + 1
    /\ bv.size = 2 * Chunk + 1
    /\ bv.size % Chunk # 0

\* C14 (as stated): whatever show_ids and check_relations are,
\* show_missing_relation_ids() reads the list only after the reconciliation
\* has run, and no entity is taken in after it ran.
C14_ReadOnlyWhenFinalized ==
    /\ (pc = "show" /\ m_show_ids) => m_relations_done
    /\ m_relations_done => ~Streaming

\* C14 (amended): with check_relations enabled show_missing_relation_ids()
\* reads the list only after the reconciliation has run; with check_relations
\* disabled and show_ids enabled it reads the list before any reconciliation,
\* and the list is empty then; no entity is taken in after the
\* reconciliation ran.
C14_ReadFinalizedWhenChecking ==
    /\ (pc = "show" /\ m_show_ids /\ m_check_relations) => m_relations_done
    /\ (pc = "show" /\ m_show_ids /\ ~m_check_relations) =>
           /\ ~m_relations_done
           /\ m_missing_relation_ids = << >>
    /\ m_relations_done => ~Streaming

C14_Witness ==
    /\ pc = "show"
    /\ m_show_ids
    /\ m_check_relations
    /\ m_relations_done
    /\ m_relation_count = 2
    /\ memRels # {}

\* C16: storing relation ids is lossless: the ledger holds as many distinct
\* values as distinct relation ids were streamed, so two distinct 64-bit ids
\* never share their stored 32-bit value.
C16_LedgerLossless ==
    m_check_relations =>
        /\ Cardinality(Range(m_relation_ids)) = Cardinality(seenRels)
        /\ \A a, b \in seenRels : a # b => Uint32(a) # Uint32(b)

\* C18: findings never stop the scan: the three entity counts are the
\* numbers of nodes, ways and relations handed to the handler, whatever was
\* found missing and whatever check_relations and show_ids are.
C18_CountsAreDelivered ==
    /\ m_node_count = delivered.nodes
    /\ m_way_count = delivered.ways
    /\ m_relation_count = delivered.relations
    /\ pc \in {"show", "any_errors", "done"} =>
           /\ cerr[1] = delivered.nodes
           /\ cerr[2] = delivered.ways
           /\ cerr[3] = delivered.relations

C18_Witness ==
    /\ pc = "done"
    /\ m_check_relations
    /\ delivered = [nodes |-> 0, ways |-> 1, relations |-> 2]
    /\ m_missing_nodes_in_ways = 2
    /\ m_missing_nodes_in_relations = 2
    /\ m_missing_ways_in_relations = 0
    /\ memRels # {}
    /\ result = FALSE

\* C15: the relation phase does not depend on the order of the relations:
\* two handlers given the same nodes and ways and the same relations, in
\* different orders, end with the same missing_nodes_in_relations, the same
\* missing_ways_in_relations and the same list of missing relation ids.
C15_RelationOrderIrrelevant ==
    pc = "show" =>
        /\ m_missing_nodes_in_relations = twin.mn
        /\ m_missing_ways_in_relations = twin.mw
        /\ m_missing_relation_ids = twin.missing
        /\ m_relations_done = twin.done

C15_Witness ==
    /\ pc = "show"
    /\ m_check_relations
    /\ twin.reordered
    /\ twin.relation_count = 2
    /\ m_missing_nodes_in_relations = 1
    /\ nodeMemberRepeat
    /\ Len(m_relation_ids) = 2
    /\ m_relation_ids[1] # m_relation_ids[2]

\* C17: check_relations does not influence the result for ways: two handlers
\* given the same ordered stream, one with check_relations enabled and one
\* with it disabled, have the same node, way and relation counts and the
\* same missing_nodes_in_ways.
C17_CheckRelationsNoInfluence ==
    /\ twin.check = ~m_check_relations
    /\ m_node_count = twin.node_count
    /\ m_way_count = twin.way_count
    /\ m_relation_count = twin.relation_count
    /\ m_missing_nodes_in_ways = twin.mnw
    /\ pc = "show" =>
           /\ cerr[1] = twin.node_count
           /\ cerr[2] = twin.way_count
           /\ cerr[3] = twin.relation_count
           /\ cerr[4] = twin.mnw

C17_Witness ==
    /\ pc = "show"
    /\ m_node_count = 1
    /\ m_way_count = 1
    /\ m_relation_count = 1
    /\ m_missing_nodes_in_ways = 1
    /\ m_missing_nodes_in_relations + twin.mn = 1
    /\ m_nodes # twin.nodes
    /\ m_ways # twin.ways

====
